---- MODULE Spec2Model ----
(***************************************************************************)
(* Recurrence engine of the planner worker: RecurrenceService (rule CRUD,  *)
(* validation, next-occurrence arithmetic), TaskInstanceService (instance  *)
(* generation and instance CRUD) and the part of TaskService.createTask    *)
(* that attaches a rule to a new task.                                     *)
(*                                                                         *)
(* Time.  A JavaScript Date is modelled as an integer number of ticks      *)
(* since 2024-01-01T00:00Z (a Monday); a day has TicksPerDay ticks.  The   *)
(* runtime's local time zone is UTC (Cloudflare Workers), so getDay,       *)
(* setDate, setMonth and toISOString agree on the calendar day.  An ISO    *)
(* string is modelled as the tuple <<year, month(1..12), date, tick>>.     *)
(*                                                                         *)
(* Optional values.  undefined / SQL NULL is the empty sequence <<>>, a    *)
(* present value v is <<v>>.                                               *)
(***************************************************************************)
EXTENDS Integers, Sequences, FiniteSets, TLC

VARIABLES tasks, rules, instances, shares, inflight, nextId, now, lastOp

vars == <<tasks, rules, instances, shares, inflight, nextId, now, lastOp>>

\* ------------------------------------------------------------------ bounds
\* resolution of the clock: ticks per calendar day
TicksPerDay == 2
\* nanoid() hands out at most this many identifiers
MaxId == 4
\* the clock stops at this tick
MaxClock == 1
\* largest maxInstances argument of a generate request
MaxBudget == 3
\* the recurrence_rules table holds at most this many rows
MaxRules == 2

\* ---------------------------------------------------------- optional values
Undefined == <<>>
Some(v) == <<v>>
IsDef(x) == x # <<>>
Val(x) == x[1]

\* ------------------------------------------------------------ JS Date model
IsLeap(y) == (y % 4 = 0 /\ y % 100 # 0) \/ y % 400 = 0
YearLen(y) == IF IsLeap(y) THEN 366 ELSE 365
\* m is a JS month index 0..11
DaysInMonth(y, m) ==
  IF m = 1 THEN (IF IsLeap(y) THEN 29 ELSE 28)
  ELSE IF m \in {3, 5, 8, 10} THEN 30 ELSE 31

RECURSIVE YearStart(_)
\* day number of January 1st of year y (day 0 is 2024-01-01)
YearStart(y) ==
  IF y = 2024 THEN 0
  ELSE IF y > 2024 THEN YearStart(y - 1) + YearLen(y - 1)
  ELSE YearStart(y + 1) - YearLen(y)

RECURSIVE MonthStart(_, _)
\* days from January 1st of y to the 1st of month m (0..11)
MonthStart(y, m) == IF m = 0 THEN 0 ELSE MonthStart(y, m - 1) + DaysInMonth(y, m - 1)

\* ECMAScript MakeDay: month and date may lie outside their ranges
MakeDay(y, m, dt) ==
  LET yy == y + (m \div 12)
      mm == m % 12
  IN YearStart(yy) + MonthStart(yy, mm) + dt - 1

RECURSIVE MonthFrom(_, _, _)
MonthFrom(y, m, n) ==
  IF n < DaysInMonth(y, m) THEN [year |-> y, month |-> m, date |-> n + 1]
  ELSE MonthFrom(y, m + 1, n - DaysInMonth(y, m))

RECURSIVE CivilFrom(_, _)
CivilFrom(y, n) ==
  IF n < 0 THEN CivilFrom(y - 1, n + YearLen(y - 1))
  ELSE IF n >= YearLen(y) THEN CivilFrom(y + 1, n - YearLen(y))
  ELSE MonthFrom(y, 0, n)

\* calendar fields of a day number
Civil(day) == CivilFrom(2024, day)

DayOf(ts) == ts \div TicksPerDay
TimeOf(ts) == ts % TicksPerDay
At(day, tod) == day * TicksPerDay + tod

\* Date.prototype.getDay: 0 = Sunday .. 6 = Saturday
getDay(ts) == (DayOf(ts) + 1) % 7
\* d.setDate(d.getDate() + k)
AddDays(ts, k) == ts + k * TicksPerDay
\* d.setDate(dt)
setDate(ts, dt) ==
  LET c == Civil(DayOf(ts)) IN At(MakeDay(c.year, c.month, dt), TimeOf(ts))
\* d.setMonth(d.getMonth() + k)
AddMonths(ts, k) ==
  LET c == Civil(DayOf(ts)) IN At(MakeDay(c.year, c.month + k, c.date), TimeOf(ts))
\* d.setFullYear(d.getFullYear() + k)
AddYears(ts, k) ==
  LET c == Civil(DayOf(ts)) IN At(MakeDay(c.year + k, c.month, c.date), TimeOf(ts))

\* d.toISOString()
toISOString(ts) ==
  LET c == Civil(DayOf(ts)) IN <<c.year, c.month + 1, c.date, TimeOf(ts)>>
\* new Date(isoString)
ParseDate(iso) == At(MakeDay(iso[1], iso[2] - 1, iso[3]), iso[4])
\* isoString.split('T')[0]
DatePart(iso) == <<iso[1], iso[2], iso[3]>>

\* ------------------------------------------------------------ rule records
\* JS truthiness of an optional number (undefined, null and 0 are falsy)
TruthyNum(x) == IsDef(x) /\ Val(x) # 0

RuleTypes == {"daily", "weekly", "monthly", "yearly", "custom", "workdays", "weekends"}
EndTypes == {"never", "date", "count"}

\* RecurrenceService.validateRule: the message it throws, or "ok"
validateRule(rule) ==
  IF rule.interval < 1 THEN "Interval must be at least 1"
  ELSE IF rule.type = "weekly"
          /\ (~IsDef(rule.days_of_week) \/ Len(Val(rule.days_of_week)) = 0)
    THEN "Weekly recurrence requires at least one day of week"
  ELSE IF rule.type = "monthly" /\ ~TruthyNum(rule.day_of_month)
    THEN "Monthly recurrence requires day_of_month"
  ELSE IF rule.end_type = "date" /\ ~IsDef(rule.end_date)
    THEN "End type \"date\" requires end_date"
  ELSE IF rule.end_type = "count"
          /\ (~TruthyNum(rule.end_count) \/ Val(rule.end_count) < 1)
    THEN "End type \"count\" requires end_count >= 1"
  ELSE "ok"

\* the values createRule / updateRule bind into a recurrence_rules row
\* (x || null turns 0 into NULL; an array, also an empty one, is kept)
RuleColumns(rule) ==
  [type |-> rule.type,
   interval |-> rule.interval,
   days_of_week |-> rule.days_of_week,
   day_of_month |-> IF TruthyNum(rule.day_of_month) THEN rule.day_of_month ELSE Undefined,
   end_type |-> rule.end_type,
   end_date |-> rule.end_date,
   end_count |-> IF TruthyNum(rule.end_count) THEN rule.end_count ELSE Undefined]

\* RecurrenceService.mapRowToRule (the row's task_id is dropped)
mapRowToRule(row) ==
  [id |-> row.id,
   type |-> row.type,
   interval |-> row.interval,
   days_of_week |-> row.days_of_week,
   day_of_month |-> IF TruthyNum(row.day_of_month) THEN row.day_of_month ELSE Undefined,
   end_type |-> row.end_type,
   end_date |-> row.end_date,
   end_count |-> IF TruthyNum(row.end_count) THEN row.end_count ELSE Undefined]

\* ----------------------------------------------------- occurrence calculator
SeqRange(s) == {s[i] : i \in 1..Len(s)}
MinOf(S) == CHOOSE x \in S : \A y \in S : x <= y

RECURSIVE SortAsc(_)
\* [...targetDays].sort((a, b) => a - b), duplicates aside
SortAsc(S) == IF S = {} THEN <<>> ELSE <<MinOf(S)>> \o SortAsc(S \ {MinOf(S)})

\* sortedDays.find((d) => d > currentDay)
FindGreater(sortedDays, currentDay) ==
  LET idx == {i \in 1..Len(sortedDays) : sortedDays[i] > currentDay}
  IN IF idx = {} THEN Undefined ELSE Some(sortedDays[MinOf(idx)])

\* the weekly branch: the number of days added to lastOccurrence
WeeklyDaysToAdd(rule, lastOccurrence) ==
  LET targetDays == IF IsDef(rule.days_of_week) THEN Val(rule.days_of_week) ELSE <<>>
      gd == getDay(lastOccurrence)
      currentDay == IF gd = 0 THEN 7 ELSE gd
      sortedDays == SortAsc(SeqRange(targetDays))
      found == FindGreater(sortedDays, currentDay)
  IN IF Len(targetDays) > 0
       THEN IF ~TruthyNum(found)
              THEN (7 - currentDay + sortedDays[1]) + (rule.interval - 1) * 7
              ELSE Val(found) - currentDay
       ELSE rule.interval * 7

\* a step of interval calendar days, whatever days they are
StepDaysAnyDay(next, added, interval, weekend) == AddDays(next, interval - added)

RECURSIVE StepDays(_, _, _, _)
\* the workdays / weekends loops: one day at a time, counting the days that
\* are (weekend = FALSE) Monday..Friday or (weekend = TRUE) Saturday/Sunday
StepDays(next, added, interval, weekend) ==
  IF added < interval
    THEN LET n == AddDays(next, 1)
             isWeekend == getDay(n) = 0 \/ getDay(n) = 6
         IN StepDays(n, IF isWeekend = weekend THEN added + 1 ELSE added, interval, weekend)
    ELSE next

\* the switch of calculateNextOccurrence, before the end-date check
StepByType(rule, lastOccurrence) ==
  CASE rule.type = "daily" -> Some(AddDays(lastOccurrence, rule.interval))
    [] rule.type = "weekly" -> Some(AddDays(lastOccurrence, WeeklyDaysToAdd(rule, lastOccurrence)))
    [] rule.type = "monthly" ->
         IF TruthyNum(rule.day_of_month)
           THEN Some(setDate(AddMonths(lastOccurrence, rule.interval), Val(rule.day_of_month)))
           ELSE Some(AddMonths(lastOccurrence, rule.interval))
    [] rule.type = "yearly" -> Some(AddYears(lastOccurrence, rule.interval))
    [] rule.type = "workdays" -> Some(StepDays(lastOccurrence, 0, rule.interval, FALSE))
    [] rule.type = "weekends" -> Some(StepDays(lastOccurrence, 0, rule.interval, TRUE))
    [] rule.type = "custom" -> Some(AddDays(lastOccurrence, rule.interval))
    [] OTHER -> Undefined

\* the end-date check at the end of calculateNextOccurrence
PastEndDate(rule, next) ==
  rule.end_type = "date" /\ IsDef(rule.end_date) /\ next > ParseDate(Val(rule.end_date))

\* RecurrenceService.calculateNextOccurrence (_startDate is not read)
calculateNextOccurrence(rule, lastOccurrence, startDate) ==
  LET next == StepByType(rule, lastOccurrence)
  IN IF ~IsDef(next) THEN Undefined
     ELSE IF PastEndDate(rule, Val(next)) THEN Undefined
     ELSE next

\* shouldContinue with the count compared by <=
shouldContinueInclusive(rule, occurrenceCount, currentDate) ==
  IF rule.end_type = "never" THEN TRUE
  ELSE IF rule.end_type = "date" /\ IsDef(rule.end_date)
    THEN currentDate <= ParseDate(Val(rule.end_date))
  ELSE IF rule.end_type = "count" /\ TruthyNum(rule.end_count)
    THEN occurrenceCount <= Val(rule.end_count)
  ELSE TRUE

\* shouldContinue without the end-date branch
shouldContinueNoDate(rule, occurrenceCount, currentDate) ==
  IF rule.end_type = "never" THEN TRUE
  ELSE IF rule.end_type = "count" /\ TruthyNum(rule.end_count)
    THEN occurrenceCount < Val(rule.end_count)
  ELSE TRUE

\* RecurrenceService.shouldContinue
shouldContinue(rule, occurrenceCount, currentDate) ==
  IF rule.end_type = "never" THEN TRUE
  ELSE IF rule.end_type = "date" /\ IsDef(rule.end_date)
    THEN currentDate <= ParseDate(Val(rule.end_date))
  ELSE IF rule.end_type = "count" /\ TruthyNum(rule.end_count)
    THEN occurrenceCount < Val(rule.end_count)
  ELSE TRUE

\* ------------------------------------------------------------------ stores
\* tasks, rules, instances: the rows of the tables tasks, recurrence_rules
\* and task_instances; shares: the <<task_id, shared_with_id>> pairs of
\* task_shares; nextId: how many nanoid() identifiers rules and instances
\* have been given (the k-th one is the integer k); now: the clock; lastOp:
\* the last completed request and its result; inflight: per worker
\* invocation of generateInstances that has read its snapshot, the instances
\* it built and those it has yet to insert.
Users == {"alice", "bob"}
\* two invocations of the worker can run at once
Invocations == {"w1", "w2"}
NoBatch == [busy |-> FALSE]
Idle == [w \in Invocations |-> NoBatch]
TaskIds == <<"t1">>

\* SELECT * FROM recurrence_rules WHERE id = ?
RuleRows(rulesTbl, ruleId) == {r \in rulesTbl : r.id = ruleId}
\* RecurrenceService.getRuleByTaskId: the rows .first() may return
RuleRowsOfTask(taskId) == {r \in rules : r.task_id = taskId}
\* TaskInstanceService.getInstances, as a set of rows
getInstances(instTbl, taskId) == {i \in instTbl : i.parent_task_id = taskId}

\* the result of an operation, kept for the properties below
Op(op, target, outcome, args, returned) ==
  [op |-> op, target |-> target, outcome |-> outcome, args |-> args, returned |-> returned]

\* n calls of nanoid()
FreshIds(n) == [k \in 1..n |-> nextId + k]

\* -------------------------------------------------------- generateInstances
\* the set built from the existing instances' scheduled_date (lines 46..48)
ExistingDatesRaw(existingInstances) == {i.scheduled_date : i \in existingInstances}
ExistingDates(existingInstances) ==
  {DatePart(toISOString(ParseDate(i.scheduled_date))) : i \in existingInstances}

\* the while condition of the generation loop (line 59)
LoopConditionInclusive(occurrenceCount, maxInstances, currentDate, endDate) ==
  occurrenceCount <= maxInstances /\ currentDate <= endDate
\* the budget alone, without the date ceiling
LoopConditionNoCeiling(occurrenceCount, maxInstances, currentDate, endDate) ==
  occurrenceCount < maxInstances
LoopCondition(occurrenceCount, maxInstances, currentDate, endDate) ==
  occurrenceCount < maxInstances /\ currentDate <= endDate

\* occurrenceCount counted up only when an instance was pushed
CountCreated(occurrenceCount, wasPushed) ==
  IF wasPushed THEN occurrenceCount + 1 ELSE occurrenceCount
\* occurrenceCount++ at the end of every iteration (line 88)
CountWalked(occurrenceCount, wasPushed) == occurrenceCount + 1

\* a walk that begins at the first date the calculator gives after the start
FirstDateAfterStart(rule, startDate) == Val(StepByType(rule, startDate))
\* the date the walk begins with: let currentDate = new Date(startDate) (line 55)
FirstDate(rule, startDate) == startDate

RECURSIVE GenerateLoop(_, _, _, _, _, _, _, _)
\* the generation loop (lines 59..89): the scheduled_date of the instances
\* pushed, in push order
GenerateLoop(rule, existingDates, startDate, endDate, maxInstances, currentDate, occurrenceCount, pushed) ==
  IF ~LoopCondition(occurrenceCount, maxInstances, currentDate, endDate) THEN pushed
  ELSE IF ~shouldContinue(rule, occurrenceCount, currentDate) THEN pushed
  ELSE LET dateStr == DatePart(toISOString(currentDate))
           pushed2 == IF dateStr \notin existingDates
                        THEN Append(pushed, toISOString(currentDate))
                        ELSE pushed
           nextDate == calculateNextOccurrence(rule, currentDate, startDate)
       IN IF ~IsDef(nextDate) THEN pushed2
          ELSE GenerateLoop(rule, existingDates, startDate, endDate, maxInstances,
                            Val(nextDate),
                            CountWalked(occurrenceCount, dateStr \notin existingDates),
                            pushed2)

\* the instance object built for a pushed date (lines 69..76)
NewInstance(id, taskId, scheduled_date) ==
  [id |-> id, parent_task_id |-> taskId, scheduled_date |-> scheduled_date,
   status |-> "planned", is_modified |-> FALSE,
   modified_title |-> Undefined, modified_description |-> Undefined,
   modified_time |-> Undefined]

\* generateInstances up to the save, on the given tables: the error thrown
\* or "ok", and the instances built (ids are the fresh ones after the first skip)
Generated(tasksTbl, rulesTbl, instTbl, skip, taskId, userId, maxInstances, daysAhead) ==
  LET parent == {t \in tasksTbl : t.id = taskId /\ t.user_id = userId}
  IN IF parent = {} THEN [outcome |-> "Task not found", list |-> <<>>]
     ELSE LET parentTask == CHOOSE t \in parent : TRUE
          IN IF ~parentTask.is_recurring \/ ~IsDef(parentTask.recurrence_rule_id)
               THEN [outcome |-> "Task is not recurring or rule not found", list |-> <<>>]
             ELSE IF RuleRows(rulesTbl, Val(parentTask.recurrence_rule_id)) = {}
               THEN [outcome |-> "Recurrence rule not found", list |-> <<>>]
             ELSE LET rule == mapRowToRule(CHOOSE r \in RuleRows(rulesTbl, Val(parentTask.recurrence_rule_id)) : TRUE)
                      startDate == ParseDate(parentTask.start_datetime)
                      endDate == AddDays(now, daysAhead)
                      dates == GenerateLoop(rule, ExistingDates(getInstances(instTbl, taskId)),
                                            startDate, endDate, maxInstances,
                                            FirstDate(rule, startDate), 0, <<>>)
                  IN [outcome |-> "ok",
                      list |-> [k \in 1..Len(dates) |->
                                  NewInstance(FreshIds(skip + Len(dates))[skip + k], taskId, dates[k])]]

\* saveInstances under a unique (parent_task_id, day) key, conflicts ignored
saveInstancesUniqueDay(instTbl, list) ==
  instTbl \cup
    {x \in SeqRange(list) :
       \A i \in instTbl :
         ~(i.parent_task_id = x.parent_task_id
           /\ DatePart(toISOString(ParseDate(i.scheduled_date)))
                = DatePart(toISOString(ParseDate(x.scheduled_date))))}
\* saveInstances that first deletes the stored instances of the batch's tasks
saveInstancesReplace(instTbl, list) ==
  {i \in instTbl : \A k \in 1..Len(list) : list[k].parent_task_id # i.parent_task_id}
    \cup SeqRange(list)
\* TaskInstanceService.saveInstances: one INSERT per instance
saveInstances(instTbl, list) == instTbl \cup SeqRange(list)

\* the request repeats the one just completed (no request and no clock tick
\* in between), which succeeded
SameRequestAsLast(taskId, userId, maxInstances, daysAhead) ==
  /\ lastOp.op = "generateInstances"
  /\ lastOp.outcome = "ok"
  /\ lastOp.target = taskId
  /\ lastOp.args.userId = userId
  /\ lastOp.args.maxInstances = maxInstances
  /\ lastOp.args.daysAhead = daysAhead

\* the row that the request just completed deleted from this task's instances
\* (no request and no clock tick in between), if there is one
DeletedJustBefore(taskId) ==
  IF /\ lastOp.op = "deleteInstance"
     /\ lastOp.outcome = "true"
     /\ lastOp.returned[1].parent_task_id = taskId
    THEN lastOp.returned
    ELSE <<>>

\* POST /api/tasks/:id/instances/generate
GenerateInstances(taskId, userId, maxInstances, daysAhead) ==
  LET g == Generated(tasks, rules, instances, 0, taskId, userId, maxInstances, daysAhead)
  IN /\ nextId + Len(g.list) <= MaxId
     /\ instances' = (IF Len(g.list) > 0 THEN saveInstances(instances, g.list) ELSE instances)
     /\ nextId' = nextId + Len(g.list)
     /\ lastOp' = Op("generateInstances", taskId, g.outcome,
                     [userId |-> userId, maxInstances |-> maxInstances, daysAhead |-> daysAhead,
                      again |-> SameRequestAsLast(taskId, userId, maxInstances, daysAhead),
                      afterDelete |-> DeletedJustBefore(taskId)],
                     g.list)
     /\ UNCHANGED <<tasks, rules, shares, inflight, now>>

\* ------------------------------------------------------------ rule requests
\* the route's ownership check: getTaskById(taskId, uid) and user_id = uid
OwnedTask(taskId, userId) == {t \in tasks : t.id = taskId /\ t.user_id = userId}

\* UPDATE tasks SET is_recurring = 1, recurrence_rule_id = ? WHERE id = ?
MarkRecurring(tasksTbl, taskId, ruleId) ==
  {IF t.id = taskId
     THEN [t EXCEPT !.is_recurring = TRUE, !.recurrence_rule_id = Some(ruleId)]
     ELSE t : t \in tasksTbl}

\* RecurrenceService.createRule on the given tables: the error thrown or
\* "ok", and the tables afterwards
createRuleInsertFirst(tasksTbl, rulesTbl, ruleId, taskId, rule) ==
  [outcome |-> validateRule(rule),
   rules |-> rulesTbl \cup {[id |-> ruleId, task_id |-> taskId] @@ RuleColumns(rule)},
   tasks |-> IF validateRule(rule) = "ok" THEN MarkRecurring(tasksTbl, taskId, ruleId) ELSE tasksTbl]
createRule(tasksTbl, rulesTbl, ruleId, taskId, rule) ==
  IF validateRule(rule) # "ok"
    THEN [outcome |-> validateRule(rule), rules |-> rulesTbl, tasks |-> tasksTbl]
    ELSE [outcome |-> "ok",
          rules |-> rulesTbl \cup {[id |-> ruleId, task_id |-> taskId] @@ RuleColumns(rule)},
          tasks |-> MarkRecurring(tasksTbl, taskId, ruleId)]

\* POST /api/tasks/:id/recurrence
CreateRule(taskId, userId, ruleData) ==
  IF OwnedTask(taskId, userId) = {}
    THEN /\ lastOp' = Op("createRule", taskId, "Task not found or no permission", <<>>, <<>>)
         /\ UNCHANGED <<tasks, rules, instances, shares, inflight, nextId, now>>
    ELSE LET c == createRule(tasks, rules, FreshIds(1)[1], taskId, ruleData)
         IN /\ Cardinality(c.rules) <= MaxRules
            /\ nextId + Cardinality(c.rules \ rules) <= MaxId
            /\ tasks' = c.tasks
            /\ rules' = c.rules
            /\ nextId' = nextId + Cardinality(c.rules \ rules)
            /\ lastOp' = Op("createRule", taskId, c.outcome, ruleData, <<>>)
            /\ UNCHANGED <<instances, shares, inflight, now>>

\* the merge of updateRule (lines 96..104): a ?? b per field
MergeRule(currentRule, updates) ==
  [type |-> IF IsDef(updates.type) THEN Val(updates.type) ELSE currentRule.type,
   interval |-> IF IsDef(updates.interval) THEN Val(updates.interval) ELSE currentRule.interval,
   days_of_week |-> IF IsDef(updates.days_of_week) THEN updates.days_of_week ELSE currentRule.days_of_week,
   day_of_month |-> IF IsDef(updates.day_of_month) THEN updates.day_of_month ELSE currentRule.day_of_month,
   end_type |-> IF IsDef(updates.end_type) THEN Val(updates.end_type) ELSE currentRule.end_type,
   end_date |-> IF IsDef(updates.end_date) THEN updates.end_date ELSE currentRule.end_date,
   end_count |-> IF IsDef(updates.end_count) THEN updates.end_count ELSE currentRule.end_count]

\* what updateRule validates before it writes (line 107)
ValidatedOnUpdateCurrent(currentRule, updates) == validateRule(currentRule)
ValidatedOnUpdate(currentRule, updates) == validateRule(MergeRule(currentRule, updates))

\* RecurrenceService.updateRule: the error thrown or "ok", and the table afterwards
updateRule(ruleId, updates) ==
  IF RuleRows(rules, ruleId) = {}
    THEN [outcome |-> "Recurrence rule not found", rules |-> rules]
    ELSE LET row == CHOOSE r \in RuleRows(rules, ruleId) : TRUE
             currentRule == mapRowToRule(row)
             updatedRule == MergeRule(currentRule, updates)
         IN IF ValidatedOnUpdate(currentRule, updates) # "ok"
              THEN [outcome |-> ValidatedOnUpdate(currentRule, updates), rules |-> rules]
              ELSE [outcome |-> "ok",
                    rules |-> (rules \ {row})
                              \cup {[id |-> row.id, task_id |-> row.task_id] @@ RuleColumns(updatedRule)}]

\* PUT /api/tasks/:id/recurrence
UpdateRule(taskId, userId, updates) ==
  IF OwnedTask(taskId, userId) = {}
    THEN /\ lastOp' = Op("updateRule", taskId, "Task not found or no permission", <<>>, <<>>)
         /\ UNCHANGED <<tasks, rules, instances, shares, inflight, nextId, now>>
    ELSE IF RuleRowsOfTask(taskId) = {}
      THEN /\ lastOp' = Op("updateRule", taskId, "Recurrence rule not found", <<>>, <<>>)
           /\ UNCHANGED <<tasks, rules, instances, shares, inflight, nextId, now>>
      ELSE \E rule \in RuleRowsOfTask(taskId) :
             LET u == updateRule(rule.id, updates)
             IN /\ rules' = u.rules
                /\ lastOp' = Op("updateRule", taskId, u.outcome, updates, <<rule.id>>)
                /\ UNCHANGED <<tasks, instances, shares, inflight, nextId, now>>

\* deleteRule without its UPDATE of the task
deleteRuleKeepTask(ruleId, taskId) ==
  [rules |-> {r \in rules : r.id # ruleId}, tasks |-> tasks]
\* RecurrenceService.deleteRule
deleteRule(ruleId, taskId) ==
  [rules |-> {r \in rules : r.id # ruleId},
   tasks |-> {IF t.id = taskId
                THEN [t EXCEPT !.is_recurring = FALSE, !.recurrence_rule_id = Undefined]
                ELSE t : t \in tasks}]

\* DELETE /api/tasks/:id/recurrence
DeleteRule(taskId, userId) ==
  IF OwnedTask(taskId, userId) = {}
    THEN /\ lastOp' = Op("deleteRule", taskId, "Task not found or no permission", <<>>, <<>>)
         /\ UNCHANGED <<tasks, rules, instances, shares, inflight, nextId, now>>
    ELSE IF RuleRowsOfTask(taskId) = {}
      THEN /\ lastOp' = Op("deleteRule", taskId, "Recurrence rule not found", <<>>, <<>>)
           /\ UNCHANGED <<tasks, rules, instances, shares, inflight, nextId, now>>
      ELSE \E rule \in RuleRowsOfTask(taskId) :
             LET d == deleteRule(rule.id, taskId)
             IN /\ rules' = d.rules
                /\ tasks' = d.tasks
                /\ lastOp' = Op("deleteRule", taskId, "ok", <<>>, <<rule.id>>)
                /\ UNCHANGED <<instances, shares, inflight, nextId, now>>

\* -------------------------------------------------------- instance requests
\* getInstance without the task_shares branch of its WHERE clause
getInstanceOwnerOnly(instanceId, userId) ==
  {i \in instances : /\ i.id = instanceId
                     /\ \E t \in tasks : t.id = i.parent_task_id /\ t.user_id = userId}
\* TaskInstanceService.getInstance: the rows the join returns
getInstance(instanceId, userId) ==
  {i \in instances : /\ i.id = instanceId
                     /\ \E t \in tasks : /\ t.id = i.parent_task_id
                                         /\ (t.user_id = userId \/ <<t.id, userId>> \in shares)}

\* the SET clauses with is_modified = 1 pushed for every supplied field
ApplyInstanceUpdatesAnyField(inst, updates) ==
  [inst EXCEPT
     !.status = IF IsDef(updates.status) THEN Val(updates.status) ELSE @,
     !.modified_title = IF IsDef(updates.modified_title) THEN updates.modified_title ELSE @,
     !.modified_description =
        IF IsDef(updates.modified_description) THEN updates.modified_description ELSE @,
     !.modified_time = IF IsDef(updates.modified_time) THEN updates.modified_time ELSE @,
     !.is_modified = IF \/ IsDef(updates.status)
                        \/ IsDef(updates.modified_title)
                        \/ IsDef(updates.modified_description)
                        \/ IsDef(updates.modified_time)
                       THEN TRUE ELSE @]
\* the UPDATE task_instances SET ... built by updateInstance (lines 152..187)
ApplyInstanceUpdates(inst, updates) ==
  [inst EXCEPT
     !.status = IF IsDef(updates.status) THEN Val(updates.status) ELSE @,
     !.modified_title = IF IsDef(updates.modified_title) THEN updates.modified_title ELSE @,
     !.modified_description =
        IF IsDef(updates.modified_description) THEN updates.modified_description ELSE @,
     !.modified_time = IF IsDef(updates.modified_time) THEN updates.modified_time ELSE @,
     !.is_modified = IF \/ IsDef(updates.modified_title)
                        \/ IsDef(updates.modified_description)
                        \/ IsDef(updates.modified_time)
                       THEN TRUE ELSE @]

\* UPDATE task_instances SET ... WHERE parent_task_id = (the instance's task)
updateInstanceRowsOfTask(instTbl, inst, updates) ==
  {IF i.parent_task_id = inst.parent_task_id THEN ApplyInstanceUpdates(i, updates) ELSE i :
     i \in instTbl}
\* UPDATE task_instances SET ... WHERE id = ? (line 185)
updateInstanceRows(instTbl, inst, updates) ==
  {IF i.id = inst.id THEN ApplyInstanceUpdates(i, updates) ELSE i : i \in instTbl}

\* TaskInstanceService.updateInstance
UpdateInstance(instanceId, userId, updates) ==
  IF getInstance(instanceId, userId) = {}
    THEN /\ lastOp' = Op("updateInstance", instanceId, "null", [userId |-> userId], <<>>)
         /\ UNCHANGED <<tasks, rules, instances, shares, inflight, nextId, now>>
    ELSE LET inst == CHOOSE i \in getInstance(instanceId, userId) : TRUE
             upd == ApplyInstanceUpdates(inst, updates)
         IN /\ instances' = updateInstanceRows(instances, inst, updates)
            /\ lastOp' = Op("updateInstance", instanceId, "ok",
                            [userId |-> userId, updates |-> updates], <<upd>>)
            /\ UNCHANGED <<tasks, rules, shares, inflight, nextId, now>>

\* a delete that keeps the row and marks it skipped
deleteInstanceRowsSoft(instTbl, instanceId) ==
  {IF i.id = instanceId THEN [i EXCEPT !.status = "skipped"] ELSE i : i \in instTbl}
\* DELETE FROM task_instances WHERE id = ? (line 201)
deleteInstanceRows(instTbl, instanceId) == {i \in instTbl : i.id # instanceId}

\* TaskInstanceService.deleteInstance
DeleteInstance(instanceId, userId) ==
  IF getInstance(instanceId, userId) = {}
    THEN /\ lastOp' = Op("deleteInstance", instanceId, "false", [userId |-> userId], <<>>)
         /\ UNCHANGED <<tasks, rules, instances, shares, inflight, nextId, now>>
    ELSE /\ instances' = deleteInstanceRows(instances, instanceId)
         /\ lastOp' = Op("deleteInstance", instanceId, "true", [userId |-> userId],
                         <<CHOOSE i \in getInstance(instanceId, userId) : TRUE>>)
         /\ UNCHANGED <<tasks, rules, shares, inflight, nextId, now>>

\* ---------------------------------------------------------------- createTask
\* the arguments of the initial generateInstances call of createTask
InitialMaxInstances == 30
InitialDaysAhead == 90

\* nanoid() for the task: the first identifier not in use
FreshTaskIds == {k \in 1..Len(TaskIds) : \A t \in tasks : t.id # TaskIds[k]}

\* TaskService.createTask (tags aside)
CreateTask(userId, data) ==
  /\ FreshTaskIds # {}
  /\ LET taskId == TaskIds[MinOf(FreshTaskIds)]
         inserted == tasks \cup {[id |-> taskId, user_id |-> userId,
                                  start_datetime |-> data.start_datetime,
                                  is_recurring |-> data.is_recurring,
                                  recurrence_rule_id |-> Undefined]}
     IN IF data.is_recurring /\ IsDef(data.recurrence_rule)
          THEN LET c == createRule(inserted, rules, FreshIds(1)[1], taskId, Val(data.recurrence_rule))
                   g == Generated(c.tasks, c.rules, instances, 1, taskId, userId,
                                  InitialMaxInstances, InitialDaysAhead)
                   list == IF c.outcome = "ok" THEN g.list ELSE <<>>
               IN /\ Cardinality(c.rules) <= MaxRules
                  /\ nextId + Cardinality(c.rules \ rules) + Len(list) <= MaxId
                  /\ nextId' = nextId + Cardinality(c.rules \ rules) + Len(list)
                  /\ tasks' = c.tasks
                  /\ rules' = c.rules
                  /\ instances' = (IF Len(list) > 0 THEN saveInstances(instances, list) ELSE instances)
                  /\ lastOp' = Op("createTask", taskId, c.outcome, data, list)
                  /\ UNCHANGED <<shares, inflight, now>>
          ELSE /\ tasks' = inserted
               /\ lastOp' = Op("createTask", taskId, "ok", data, <<>>)
               /\ UNCHANGED <<rules, instances, shares, inflight, nextId, now>>

\* the clock advances between requests
Tick ==
  /\ now < MaxClock
  /\ now' = now + 1
  /\ lastOp' = Op("tick", "", "ok", <<>>, <<>>)
  /\ UNCHANGED <<tasks, rules, instances, shares, inflight, nextId>>

\* ------------------------------------------------------------------ inputs
\* a request body; week_of_month and day_of_week_for_month are the columns of
\* migration 0003, which no service code reads
Rule(type, interval, days_of_week, day_of_month, end_type, end_date, end_count) ==
  [type |-> type, interval |-> interval, days_of_week |-> days_of_week,
   day_of_month |-> day_of_month, end_type |-> end_type, end_date |-> end_date,
   end_count |-> end_count, week_of_month |-> Undefined,
   day_of_week_for_month |-> Undefined]

\* Monday 2024-01-01 (noon), Sunday 2024-01-07, Wednesday 2024-01-31
StartMonday == <<2024, 1, 1, 1>>
StartSunday == <<2024, 1, 7, 0>>
StartJan31 == <<2024, 1, 31, 0>>

\* rules sent by the requests of Spec
RuleInputs ==
  { Rule("daily", 1, Undefined, Undefined, "count", Undefined, Some(2)),
    Rule("weekly", 1, Some(<<0>>), Undefined, "never", Undefined, Undefined),
    Rule("weekly", 1, Some(<<>>), Undefined, "never", Undefined, Undefined) }

NoRuleUpdate ==
  [type |-> Undefined, interval |-> Undefined, days_of_week |-> Undefined,
   day_of_month |-> Undefined, end_type |-> Undefined, end_date |-> Undefined,
   end_count |-> Undefined]

\* partial updates sent by the requests of Spec
RuleUpdateInputs ==
  { [NoRuleUpdate EXCEPT !.type = Some("weekly")],
    [NoRuleUpdate EXCEPT !.interval = Some(2)],
    [NoRuleUpdate EXCEPT !.end_type = Some("never")] }

NoInstanceUpdate ==
  [status |-> Undefined, modified_title |-> Undefined,
   modified_description |-> Undefined, modified_time |-> Undefined]

InstanceUpdateInputs ==
  { [NoInstanceUpdate EXCEPT !.status = Some("done")],
    [NoInstanceUpdate EXCEPT !.modified_title = Some("title")] }

TaskData(start_datetime, is_recurring, recurrence_rule) ==
  [start_datetime |-> start_datetime, is_recurring |-> is_recurring,
   recurrence_rule |-> recurrence_rule]

\* bodies of the create-task requests of Spec
TaskInputs ==
  { TaskData(StartMonday, FALSE, Undefined),
    TaskData(StartSunday, TRUE,
             Some(Rule("daily", 1, Undefined, Undefined, "count", Undefined, Some(2)))),
    TaskData(StartMonday, TRUE,
             Some(Rule("weekly", 1, Some(<<>>), Undefined, "never", Undefined, Undefined))) }

DaysAheadInputs == {400}

\* --------------------------------------------------------------- the system
Init ==
  /\ tasks = {}
  /\ rules = {}
  /\ instances = {}
  /\ shares = {}
  /\ inflight = Idle
  /\ nextId = 0
  /\ now = 0
  /\ lastOp = Op("init", "", "ok", <<>>, <<>>)

\* the rule life cycle: task creation, the recurrence routes, generation
NextRules ==
  \/ \E data \in TaskInputs : CreateTask("alice", data)
  \/ \E k \in 1..Len(TaskIds), u \in Users, r \in RuleInputs : CreateRule(TaskIds[k], u, r)
  \/ \E k \in 1..Len(TaskIds), u \in Users, upd \in RuleUpdateInputs : UpdateRule(TaskIds[k], u, upd)
  \/ \E k \in 1..Len(TaskIds), u \in Users : DeleteRule(TaskIds[k], u)
  \/ \E k \in 1..Len(TaskIds), u \in Users, d \in DaysAheadInputs :
       GenerateInstances(TaskIds[k], u, MaxBudget, d)

SpecRules == Init /\ [][NextRules]_vars

\* every request
Next ==
  \/ NextRules
  \/ \E id \in 1..MaxId, u \in Users, upd \in InstanceUpdateInputs : UpdateInstance(id, u, upd)
  \/ \E id \in 1..MaxId, u \in Users : DeleteInstance(id, u)
  \/ Tick

Spec == Init /\ [][Next]_vars

\* ------------------------------------------------- generation on a stored rule
\* the <<rule, start_datetime>> pairs of the recurring tasks of SpecGen
GenCases ==
  { <<Rule("daily", 1, Undefined, Undefined, "never", Undefined, Undefined), StartMonday>>,
    <<Rule("daily", 2, Undefined, Undefined, "count", Undefined, Some(2)), StartMonday>>,
    <<Rule("daily", 1, Undefined, Undefined, "date", Some(<<2024, 1, 8, 0>>), Undefined), StartSunday>>,
    <<Rule("daily", 1, Undefined, Undefined, "date", Some(<<2024, 1, 1, 0>>), Undefined), StartMonday>>,
    <<Rule("weekly", 1, Some(<<0>>), Undefined, "never", Undefined, Undefined), StartSunday>>,
    <<Rule("weekly", 1, Some(<<0>>), Undefined, "count", Undefined, Some(3)), StartMonday>>,
    <<Rule("weekly", 2, Some(<<0, 2>>), Undefined, "never", Undefined, Undefined), StartMonday>>,
    <<Rule("weekly", 2, Some(<<3, 1>>), Undefined, "count", Undefined, Some(3)), StartMonday>>,
    <<Rule("monthly", 1, Undefined, Some(31), "never", Undefined, Undefined), StartJan31>>,
    <<Rule("monthly", 2, Undefined, Some(15), "date", Some(<<2024, 3, 15, 0>>), Undefined), StartMonday>>,
    <<Rule("yearly", 1, Undefined, Undefined, "count", Undefined, Some(1)), StartJan31>>,
    <<Rule("workdays", 1, Undefined, Undefined, "never", Undefined, Undefined), StartSunday>>,
    <<Rule("weekends", 2, Undefined, Undefined, "count", Undefined, Some(3)), StartMonday>>,
    <<Rule("custom", 2, Undefined, Undefined, "never", Undefined, Undefined), StartSunday>> }

GenDaysAhead == {1, 400}

\* the database after alice's createTask (no rule) and createRule
InitGen ==
  \E c \in GenCases :
    /\ tasks = {[id |-> TaskIds[1], user_id |-> "alice", start_datetime |-> c[2],
                 is_recurring |-> TRUE, recurrence_rule_id |-> Some(1)]}
    /\ rules = {[id |-> 1, task_id |-> TaskIds[1]] @@ RuleColumns(c[1])}
    /\ instances = {}
    /\ shares = {}
    /\ inflight = Idle
    /\ nextId = 1
    /\ now = 0
    /\ lastOp = Op("createRule", TaskIds[1], "ok", c[1], <<>>)

NextGen ==
  \/ \E m \in 1..MaxBudget, d \in GenDaysAhead : GenerateInstances(TaskIds[1], "alice", m, d)
  \/ \E id \in 1..MaxId : DeleteInstance(id, "alice")
  \/ Tick

SpecGen == InitGen /\ [][NextGen]_vars

\* --------------------------------------------- instances of two users' tasks
\* the database after alice and bob each created a task and gave it a daily
\* rule; alice's task is shared with bob (a row of task_shares), bob's task
\* is not shared
InitInst ==
  /\ tasks = {[id |-> "t1", user_id |-> "alice", start_datetime |-> StartMonday,
               is_recurring |-> TRUE, recurrence_rule_id |-> Some(1)],
              [id |-> "t2", user_id |-> "bob", start_datetime |-> StartSunday,
               is_recurring |-> TRUE, recurrence_rule_id |-> Some(2)]}
  /\ rules = {[id |-> 1, task_id |-> "t1"]
                @@ RuleColumns(Rule("daily", 1, Undefined, Undefined, "never", Undefined, Undefined)),
              [id |-> 2, task_id |-> "t2"]
                @@ RuleColumns(Rule("daily", 1, Undefined, Undefined, "count", Undefined, Some(2)))}
  /\ instances = {}
  /\ shares = {<<"t1", "bob">>}
  /\ inflight = Idle
  /\ nextId = 2
  /\ now = 0
  /\ lastOp = Op("init", "", "ok", <<>>, <<>>)

\* the instance ids requests name: those stored and one that is not
InstanceIdInputs == {i.id : i \in instances} \cup {nextId + 1}

\* instance requests by both users, generation and the rule routes by the
\* task's owner
NextInst ==
  \/ \E t \in tasks, m \in 1..2, d \in DaysAheadInputs :
       GenerateInstances(t.id, t.user_id, m, d)
  \/ \E id \in InstanceIdInputs, u \in Users, upd \in InstanceUpdateInputs : UpdateInstance(id, u, upd)
  \/ \E id \in InstanceIdInputs, u \in Users : DeleteInstance(id, u)
  \/ \E t \in tasks : UpdateRule(t.id, t.user_id, [NoRuleUpdate EXCEPT !.end_type = Some("never")])
  \/ \E t \in tasks : DeleteRule(t.id, t.user_id)

SpecInst == InitInst /\ [][NextInst]_vars

\* ------------------------------------------- generation, invocations at once
\* generateInstances up to its save (lines 23..89): the invocation reads the
\* task, the rule and the stored instances and builds its instances; a
\* failure or an empty batch ends the request
GenerateRead(w, taskId, userId, maxInstances, daysAhead) ==
  /\ ~inflight[w].busy
  /\ LET g == Generated(tasks, rules, instances, 0, taskId, userId, maxInstances, daysAhead)
         args == [userId |-> userId, maxInstances |-> maxInstances, daysAhead |-> daysAhead,
                  again |-> FALSE, batch |-> g.list]
     IN /\ nextId + Len(g.list) <= MaxId
        /\ nextId' = nextId + Len(g.list)
        /\ IF Len(g.list) > 0
             THEN /\ inflight' = [inflight EXCEPT ![w] =
                                    [busy |-> TRUE, taskId |-> taskId, args |-> args,
                                     todo |-> g.list]]
                  /\ UNCHANGED lastOp
             ELSE /\ lastOp' = Op("generateInstances", taskId, g.outcome, args, <<>>)
                  /\ UNCHANGED inflight
        /\ UNCHANGED <<tasks, rules, instances, shares, now>>

\* one INSERT of saveInstances (lines 210..231); after the last one the
\* request returns the instances it built
GenerateInsert(w) ==
  /\ inflight[w].busy
  /\ LET b == inflight[w]
     IN /\ instances' = saveInstances(instances, <<Head(b.todo)>>)
        /\ IF Tail(b.todo) = <<>>
             THEN /\ inflight' = [inflight EXCEPT ![w] = NoBatch]
                  /\ lastOp' = Op("generateInstances", b.taskId, "ok", b.args, b.args.batch)
             ELSE /\ inflight' = [inflight EXCEPT ![w].todo = Tail(b.todo)]
                  /\ UNCHANGED lastOp
        /\ UNCHANGED <<tasks, rules, shares, nextId, now>>

\* an INSERT of saveInstances throws (the database refuses the statement):
\* the loop of saveInstances ends, the route answers 500
GenerateInsertFails(w) ==
  /\ inflight[w].busy
  /\ inflight' = [inflight EXCEPT ![w] = NoBatch]
  /\ lastOp' = Op("generateInstances", inflight[w].taskId, "Failed to generate instances",
                  inflight[w].args, <<>>)
  /\ UNCHANGED <<tasks, rules, instances, shares, nextId, now>>

NextConc ==
  \E w \in Invocations :
    \/ \E m \in 1..MaxBudget, d \in DaysAheadInputs :
         GenerateRead(w, TaskIds[1], "alice", m, d)
    \/ GenerateInsert(w)
    \/ GenerateInsertFails(w)

SpecConc == InitGen /\ [][NextConc]_vars

\* ------------------------------------------- generation, iteration by iteration
\* generateInstances up to its loop (lines 23..57): the lookups, the set of
\* existing days, the ceiling and the loop's variables
LoopStart(w, taskId, userId, maxInstances, daysAhead) ==
  /\ ~inflight[w].busy
  /\ nextId + maxInstances <= MaxId
  /\ LET parent == {t \in tasks : t.id = taskId /\ t.user_id = userId}
         args == [userId |-> userId, maxInstances |-> maxInstances, daysAhead |-> daysAhead,
                  again |-> FALSE, iterations |-> 0]
     IN IF parent = {}
          THEN /\ lastOp' = Op("generateInstances", taskId, "Task not found", args, <<>>)
               /\ UNCHANGED inflight
          ELSE LET parentTask == CHOOSE t \in parent : TRUE
               IN IF ~parentTask.is_recurring \/ ~IsDef(parentTask.recurrence_rule_id)
                    THEN /\ lastOp' = Op("generateInstances", taskId,
                                         "Task is not recurring or rule not found", args, <<>>)
                         /\ UNCHANGED inflight
                  ELSE IF RuleRows(rules, Val(parentTask.recurrence_rule_id)) = {}
                    THEN /\ lastOp' = Op("generateInstances", taskId,
                                         "Recurrence rule not found", args, <<>>)
                         /\ UNCHANGED inflight
                  ELSE LET rule == mapRowToRule(CHOOSE r \in RuleRows(rules, Val(parentTask.recurrence_rule_id)) : TRUE)
                           startDate == ParseDate(parentTask.start_datetime)
                       IN /\ inflight' = [inflight EXCEPT ![w] =
                               [busy |-> TRUE, taskId |-> taskId, args |-> args, rule |-> rule,
                                existingDates |-> ExistingDates(getInstances(instances, taskId)),
                                startDate |-> startDate,
                                endDate |-> AddDays(now, daysAhead),
                                currentDate |-> FirstDate(rule, startDate),
                                occurrenceCount |-> 0,
                                pushed |-> <<>>]]
                          /\ UNCHANGED lastOp
  /\ UNCHANGED <<tasks, rules, instances, shares, nextId, now>>

\* the end of generateInstances (lines 91..97): the instances built for the
\* dates pushed are saved and returned; iterations is the number of times the
\* loop body was entered
LoopReturn(w, pushed, iterations) ==
  LET b == inflight[w]
      list == [k \in 1..Len(pushed) |-> NewInstance(FreshIds(Len(pushed))[k], b.taskId, pushed[k])]
  IN /\ instances' = (IF Len(list) > 0 THEN saveInstances(instances, list) ELSE instances)
     /\ nextId' = nextId + Len(list)
     /\ inflight' = [inflight EXCEPT ![w] = NoBatch]
     /\ lastOp' = Op("generateInstances", b.taskId, "ok",
                     [b.args EXCEPT !.iterations = iterations], list)

\* one evaluation of the while condition (line 59) and, when it holds, one
\* iteration of the loop body (lines 60..88); the call returns when the
\* condition fails or the body breaks
LoopStep(w) ==
  /\ inflight[w].busy
  /\ LET b == inflight[w]
     IN IF ~LoopCondition(b.occurrenceCount, b.args.maxInstances, b.currentDate, b.endDate)
          THEN LoopReturn(w, b.pushed, b.occurrenceCount)
        ELSE IF ~shouldContinue(b.rule, b.occurrenceCount, b.currentDate)
          THEN LoopReturn(w, b.pushed, b.occurrenceCount + 1)
        ELSE LET dateStr == DatePart(toISOString(b.currentDate))
                 pushed2 == IF dateStr \notin b.existingDates
                              THEN Append(b.pushed, toISOString(b.currentDate))
                              ELSE b.pushed
                 nextDate == calculateNextOccurrence(b.rule, b.currentDate, b.startDate)
             IN IF ~IsDef(nextDate)
                  THEN LoopReturn(w, pushed2, b.occurrenceCount + 1)
                  ELSE /\ inflight' = [inflight EXCEPT ![w] =
                            [b EXCEPT !.currentDate = Val(nextDate),
                                      !.occurrenceCount =
                                         CountWalked(b.occurrenceCount, dateStr \notin b.existingDates),
                                      !.pushed = pushed2]]
                       /\ UNCHANGED <<instances, nextId, lastOp>>
  /\ UNCHANGED <<tasks, rules, shares, now>>

NextLoop ==
  \/ \E m \in 1..MaxBudget, d \in GenDaysAhead : LoopStart("w1", TaskIds[1], "alice", m, d)
  \/ LoopStep("w1")

\* the runtime runs a started call on: its next step is taken
SpecLoop == InitGen /\ [][NextLoop]_vars /\ WF_vars(LoopStep("w1"))

\* ------------------------------------------------------ validation, alone
\* candidate rules for validateRule
Candidates ==
  { [Rule(t, n, dw, dm, et, ed, ec) EXCEPT !.week_of_month = wk, !.day_of_week_for_month = wk] :
      t \in RuleTypes, n \in {0, 1},
      dw \in {Undefined, Some(<<>>), Some(<<0, 2>>)},
      dm \in {Undefined, Some(15)},
      wk \in {Undefined, Some(2)},
      et \in EndTypes,
      ed \in {Undefined, Some(<<2024, 3, 15, 0>>)},
      ec \in {Undefined, Some(0), Some(2)} }

\* validateRule applied to a candidate; nothing is stored
Validate(rule) ==
  /\ lastOp' = Op("validateRule", "", validateRule(rule), rule, <<>>)
  /\ UNCHANGED <<tasks, rules, instances, shares, inflight, nextId, now>>

NextValidate == \E rule \in Candidates : Validate(rule)

SpecValidate == Init /\ [][NextValidate]_vars

\* ------------------------------------------------------ the calculator, alone
\* the last day of the calendar window the calculator is asked about
MaxCalcDay == 9
\* the largest interval of a rule handed to the calculator
MaxCalcInterval == 2

\* rules handed to calculateNextOccurrence: the request bodies that
\* validateRule accepts; custom_unit is the column of migration 0003
CalcRules ==
  { r \in { Rule(t, n, dw, dm, et, ed, Undefined) @@ [custom_unit |-> cu] :
              t \in RuleTypes, n \in 1..MaxCalcInterval,
              dw \in {Undefined, Some(<<0>>), Some(<<0, 2>>), Some(<<3, 1>>),
                      Some(<<0, 1, 2, 3, 4, 5, 6>>)},
              dm \in {Undefined, Some(15), Some(31)},
              cu \in {Undefined, Some("days"), Some("weeks")},
              et \in {"never", "date"},
              ed \in {Undefined, Some(<<2024, 1, 10, 0>>)} } :
      /\ validateRule(r) = "ok"
      /\ (r.type # "weekly" => r.days_of_week = Undefined)
      /\ (r.type = "weekly" => r.days_of_week # Undefined)
      /\ (r.type # "monthly" => r.day_of_month = Undefined)
      /\ (r.type # "custom" => r.custom_unit = Undefined)
      /\ (r.end_type = "never" => r.end_date = Undefined)
      /\ (r.end_type = "date" => r.type \in {"daily", "weekly"}) }

\* the dates handed to it as lastOccurrence: every tick of the window, and the
\* ends of January and of February
CalcDates ==
  { At(d, t) : d \in (0..MaxCalcDay) \cup {30, 59}, t \in 0..(TicksPerDay - 1) }

\* calculateNextOccurrence applied to a rule and a date; nothing is stored
Calculate(rule, lastOccurrence) ==
  /\ lastOp' = Op("calculateNextOccurrence", "", "ok",
                  [rule |-> rule, lastOccurrence |-> lastOccurrence],
                  calculateNextOccurrence(rule, lastOccurrence, lastOccurrence))
  /\ UNCHANGED <<tasks, rules, instances, shares, inflight, nextId, now>>

NextCalc == \E rule \in CalcRules, lastOccurrence \in CalcDates : Calculate(rule, lastOccurrence)

SpecCalc == Init /\ [][NextCalc]_vars

\* ================================================================ properties
GenOk == lastOp.op = "generateInstances" /\ lastOp.outcome = "ok"
\* the task of the last request and its stored rule
OpTask == CHOOSE t \in tasks : t.id = lastOp.target
OpRule == mapRowToRule(CHOOSE r \in rules : r.id = Val(OpTask.recurrence_rule_id))
RuleOfTask(t) == mapRowToRule(CHOOSE r \in rules : r.id = Val(t.recurrence_rule_id))
HasRule(t) == IsDef(t.recurrence_rule_id) /\ RuleRows(rules, Val(t.recurrence_rule_id)) # {}
\* the dates of the returned instances, in list order
Returned == [k \in 1..Len(lastOp.returned) |-> ParseDate(lastOp.returned[k].scheduled_date)]
\* the deduplication key of a stored instance
DayKey(i) == DatePart(toISOString(ParseDate(i.scheduled_date)))
\* the last generate call found no instance of its task
FoundNoInstances == getInstances(instances, lastOp.target) = SeqRange(lastOp.returned)

\* C1: a generate request that repeats the one just completed (same task,
\* caller, maxInstances, daysAhead and clock) returns the empty list and
\* leaves task_instances as it was.
C1_IdempotentGeneration ==
  [][ (GenOk /\ GenOk'
       /\ lastOp'.target = lastOp.target
       /\ lastOp'.args.userId = lastOp.args.userId
       /\ lastOp'.args.maxInstances = lastOp.args.maxInstances
       /\ lastOp'.args.daysAhead = lastOp.args.daysAhead
       /\ now' = now)
      => (lastOp'.returned = <<>> /\ instances' = instances) ]_vars

\* a repeated generate request on a task that has instances
C1_Witness ==
  GenOk /\ lastOp.args.again /\ getInstances(instances, lastOp.target) # {}

\* C2: no two stored instances of one task fall on the same calendar day.
C2_UniquePerDay ==
  \A i \in instances, j \in instances :
    (i.parent_task_id = j.parent_task_id /\ DayKey(i) = DayKey(j)) => i = j

\* C3: a task whose rule ends after n occurrences holds at most n instances,
\* and no generate call returns more than n.
C3_EndByCount ==
  \A t \in tasks :
    (HasRule(t) /\ RuleOfTask(t).end_type = "count") =>
      /\ Cardinality(getInstances(instances, t.id)) <= Val(RuleOfTask(t).end_count)
      /\ (GenOk /\ lastOp.target = t.id) => Len(lastOp.returned) <= Val(RuleOfTask(t).end_count)

\* a generate call with a budget above n filled the task up to n instances
C3_Witness ==
  /\ GenOk
  /\ OpRule.end_type = "count"
  /\ lastOp.args.maxInstances > Val(OpRule.end_count)
  /\ Len(lastOp.returned) > 0
  /\ Cardinality(getInstances(instances, lastOp.target)) = Val(OpRule.end_count)

\* C4: under a rule that ends on date D no instance is scheduled after D, and
\* the calculator returns no date past D from any stored occurrence.
C4_EndByDate ==
  \A t \in tasks :
    (HasRule(t) /\ RuleOfTask(t).end_type = "date") =>
      \A i \in getInstances(instances, t.id) :
        /\ ParseDate(i.scheduled_date) <= ParseDate(Val(RuleOfTask(t).end_date))
        /\ LET nx == calculateNextOccurrence(RuleOfTask(t), ParseDate(i.scheduled_date),
                                             ParseDate(t.start_datetime))
           IN IF Val(StepByType(RuleOfTask(t), ParseDate(i.scheduled_date)))
                   > ParseDate(Val(RuleOfTask(t).end_date))
                THEN nx = Undefined
                ELSE IsDef(nx)

\* a generate call created instances and stopped because the next date is past D
C4_Witness ==
  /\ GenOk
  /\ OpRule.end_type = "date"
  /\ Len(lastOp.returned) > 0
  /\ Len(lastOp.returned) < lastOp.args.maxInstances
  /\ Val(StepByType(OpRule, Returned[Len(Returned)])) > ParseDate(Val(OpRule.end_date))
  /\ Val(StepByType(OpRule, Returned[Len(Returned)])) <= AddDays(now, lastOp.args.daysAhead)

\* at least maxInstances occurrences of the daily rule lie at or before the ceiling
BudgetWithinCeiling ==
  AddDays(ParseDate(OpTask.start_datetime), (lastOp.args.maxInstances - 1) * OpRule.interval)
    <= AddDays(now, lastOp.args.daysAhead)

\* C5: on a daily rule that never ends, with no instance stored and at least
\* maxInstances occurrences up to the ceiling, generate returns exactly
\* maxInstances instances.
C5_BudgetCap ==
  (GenOk /\ OpRule.type = "daily" /\ OpRule.end_type = "never"
   /\ FoundNoInstances /\ BudgetWithinCeiling)
    => Len(lastOp.returned) = lastOp.args.maxInstances

C5_Witness ==
  /\ GenOk /\ OpRule.type = "daily" /\ OpRule.end_type = "never"
  /\ FoundNoInstances /\ BudgetWithinCeiling
  /\ lastOp.args.maxInstances = MaxBudget
  /\ Len(lastOp.returned) = MaxBudget

\* C6: the dates returned by one generate call are strictly increasing.
C6_StrictlyIncreasing ==
  GenOk => \A k \in 1..(Len(Returned) - 1) : Returned[k] < Returned[k + 1]

\* C7: weekly, every 2 weeks, on Monday and Wednesday (days_of_week [0, 2]),
\* start on a Monday: the first three occurrences are the start, the start
\* plus 2 days and the start plus 14 days.
C7_WeeklyTieBreak ==
  (GenOk /\ OpRule.type = "weekly" /\ OpRule.interval = 2
   /\ OpRule.days_of_week = Some(<<0, 2>>)
   /\ getDay(ParseDate(OpTask.start_datetime)) = 1
   /\ FoundNoInstances /\ Len(Returned) = 3)
    => LET start == ParseDate(OpTask.start_datetime)
       IN Returned = <<start, AddDays(start, 2), AddDays(start, 14)>>

\* the candidates the validation rules name as invalid: interval below 1;
\* weekly without days; monthly with neither a fixed day nor a week-based
\* anchor; end by date without a date; end by count without a count >= 1
NamedInvalid(rule) ==
  \/ rule.interval < 1
  \/ rule.type = "weekly" /\ (~IsDef(rule.days_of_week) \/ Val(rule.days_of_week) = <<>>)
  \/ /\ rule.type = "monthly"
     /\ ~IsDef(rule.day_of_month)
     /\ ~(IsDef(rule.week_of_month) /\ IsDef(rule.day_of_week_for_month))
  \/ rule.end_type = "date" /\ ~IsDef(rule.end_date)
  \/ rule.end_type = "count" /\ (~IsDef(rule.end_count) \/ Val(rule.end_count) < 1)

ValidationErrors ==
  { "Interval must be at least 1",
    "Weekly recurrence requires at least one day of week",
    "Monthly recurrence requires day_of_month",
    "End type \"date\" requires end_date",
    "End type \"count\" requires end_count >= 1" }

\* C8: validateRule rejects a candidate exactly when it is one of the named
\* invalid candidates, and leaves the stored state alone.
C8_ValidationPredicate ==
  lastOp.op = "validateRule" =>
    /\ (lastOp.outcome \in ValidationErrors) <=> NamedInvalid(lastOp.args)
    /\ (lastOp.outcome = "ok") <=> ~NamedInvalid(lastOp.args)
    /\ tasks = {} /\ rules = {} /\ instances = {}

\* C9: a create-rule request whose rule fails validation fails with the
\* validation error, stores no rule, leaves the task's recurring flag and rule
\* reference as they were, and creates no instance; the same holds for the
\* rule sent along with a new task.
C9_RejectedCreate ==
  [][ /\ (lastOp'.op = "createRule"
          /\ lastOp'.outcome # "Task not found or no permission"
          /\ NamedInvalid(lastOp'.args))
         => /\ lastOp'.outcome \in ValidationErrors
            /\ rules' = rules
            /\ tasks' = tasks
            /\ instances' = instances
      /\ (lastOp'.op = "createTask"
          /\ lastOp'.args.is_recurring
          /\ IsDef(lastOp'.args.recurrence_rule)
          /\ NamedInvalid(Val(lastOp'.args.recurrence_rule)))
         => /\ lastOp'.outcome \in ValidationErrors
            /\ rules' = rules
            /\ instances' = instances
            /\ tasks \subseteq tasks'
            /\ \A t \in tasks' \ tasks :
                 t.is_recurring = lastOp'.args.is_recurring
                 /\ t.recurrence_rule_id = Undefined ]_vars

\* a rejected create-rule request on a task that already has a rule and instances
C9_Witness ==
  /\ lastOp.op = "createRule"
  /\ lastOp.outcome = "Weekly recurrence requires at least one day of week"
  /\ RuleRowsOfTask(lastOp.target) # {}
  /\ getInstances(instances, lastOp.target) # {}

\* a stored row as a candidate rule
StoredRule(row) ==
  mapRowToRule(row) @@ [week_of_month |-> Undefined, day_of_week_for_month |-> Undefined]

\* C10: every stored rule is valid after every request, and an update-rule
\* request that fails leaves the stored rules exactly as before.
C10_UpdateKeepsValid ==
  [][ /\ \A r \in rules' : ~NamedInvalid(StoredRule(r))
      /\ (lastOp'.op = "updateRule" /\ lastOp'.outcome # "ok") => rules' = rules ]_vars

\* an update whose merged result is invalid was refused
C10_Witness ==
  /\ lastOp.op = "updateRule"
  /\ lastOp.outcome \in ValidationErrors
  /\ lastOp.returned # <<>>
  /\ \E r \in rules : r.id = lastOp.returned[1] /\ ~NamedInvalid(StoredRule(r))

\* the stored instance with the given id
InstanceById(instTbl, id) == CHOOSE i \in instTbl : i.id = id
UpdateOk == lastOp.op = "updateInstance" /\ lastOp.outcome = "ok"
\* an update that supplies an override field
Overrides(updates) ==
  IsDef(updates.modified_title) \/ IsDef(updates.modified_description)
    \/ IsDef(updates.modified_time)

\* C11: a successful updateInstance on instance A leaves every other
\* instance, every rule and every task as it was, and A keeps its id, its
\* task and its scheduled date.
C11_OverrideIndependence ==
  [][ UpdateOk' =>
        /\ \A i \in instances : i.id # lastOp'.target => i \in instances'
        /\ \A j \in instances' : j.id # lastOp'.target => j \in instances
        /\ \E a \in instances, b \in instances' :
             /\ a.id = lastOp'.target /\ b.id = lastOp'.target
             /\ b.parent_task_id = a.parent_task_id
             /\ b.scheduled_date = a.scheduled_date
        /\ rules' = rules
        /\ tasks' = tasks ]_vars

\* an override of one instance while an untouched sibling of the same task is stored
C11_Witness ==
  /\ UpdateOk
  /\ Overrides(lastOp.args.updates)
  /\ \E i \in instances :
       /\ i.id # lastOp.target
       /\ i.parent_task_id = InstanceById(instances, lastOp.target).parent_task_id
       /\ ~i.is_modified

\* C12: is_modified is false at creation; a step turns it true exactly when
\* it is a successful updateInstance on that instance that supplies
\* modified_title, modified_description or modified_time; no step turns it
\* back to false.
C12_IsModifiedTracksOverrides ==
  [][ \A j \in instances' :
        IF \E i \in instances : i.id = j.id
          THEN j.is_modified =
                 (\/ InstanceById(instances, j.id).is_modified
                  \/ (UpdateOk' /\ lastOp'.target = j.id /\ Overrides(lastOp'.args.updates)))
          ELSE j.is_modified = FALSE ]_vars

\* a status-only update of an instance that was overridden before
C12_Witness ==
  /\ UpdateOk
  /\ ~Overrides(lastOp.args.updates)
  /\ InstanceById(instances, lastOp.target).is_modified
  /\ InstanceById(instances, lastOp.target).status = "done"

\* C13: deleteRule removes the rule, sets the task's is_recurring to false and
\* clears its recurrence_rule_id, and leaves every instance as it was;
\* generateInstances on a task without rule fails and creates nothing.
C13_DeleteRuleKeepsInstances ==
  [][ /\ (lastOp'.op = "deleteRule" /\ lastOp'.outcome = "ok") =>
           /\ \A r \in rules' : r.id # lastOp'.returned[1]
           /\ \A r \in rules : r.id # lastOp'.returned[1] => r \in rules'
           /\ \A t \in tasks' : t.id = lastOp'.target =>
                (~t.is_recurring /\ t.recurrence_rule_id = Undefined)
           /\ instances' = instances
      /\ (lastOp'.op = "generateInstances"
          /\ \E t \in tasks : /\ t.id = lastOp'.target
                              /\ ~t.is_recurring
                              /\ RuleRowsOfTask(t.id) = {}) =>
           /\ lastOp'.outcome # "ok"
           /\ lastOp'.returned = <<>>
           /\ instances' = instances ]_vars

\* the owner's generate request fails on a task whose rule was deleted and
\* whose instances are still stored
C13_Witness ==
  /\ lastOp.op = "generateInstances"
  /\ lastOp.outcome = "Task is not recurring or rule not found"
  /\ OpTask.user_id = lastOp.args.userId
  /\ RuleRowsOfTask(lastOp.target) = {}
  /\ getInstances(instances, lastOp.target) # {}

\* the caller owns the instance's task or the task is shared with the caller
HasAccess(instanceId, userId) ==
  \E i \in instances : /\ i.id = instanceId
                       /\ \E t \in tasks : /\ t.id = i.parent_task_id
                                           /\ (t.user_id = userId \/ <<t.id, userId>> \in shares)

\* C15: updateInstance and deleteInstance return not-found and leave the
\* instances as they were when the instance does not exist or the caller has
\* no access to its task (owner or shared); with access they take effect.
C15_InstanceAccess ==
  [][ /\ lastOp'.op = "updateInstance" =>
           IF HasAccess(lastOp'.target, lastOp'.args.userId)
             THEN /\ lastOp'.outcome = "ok"
                  /\ LET upd == lastOp'.args.updates
                         b == InstanceById(instances', lastOp'.target)
                     IN /\ IsDef(upd.status) => b.status = Val(upd.status)
                        /\ IsDef(upd.modified_title) => b.modified_title = upd.modified_title
             ELSE lastOp'.outcome = "null" /\ instances' = instances
      /\ lastOp'.op = "deleteInstance" =>
           IF HasAccess(lastOp'.target, lastOp'.args.userId)
             THEN /\ lastOp'.outcome = "true"
                  /\ instances' = {i \in instances : i.id # lastOp'.target}
             ELSE lastOp'.outcome = "false" /\ instances' = instances ]_vars

\* bob updated an instance of alice's task, which is shared with him
C15_Witness ==
  /\ UpdateOk
  /\ lastOp.args.userId = "bob"
  /\ \E t \in tasks : /\ t.id = InstanceById(instances, lastOp.target).parent_task_id
                      /\ t.user_id = "alice"

\* C19: generateInstances keeps every stored instance as it is, adds exactly
\* the instances it returns, and leaves rules and tasks unchanged.
C19_GenerationOnlyAdds ==
  [][ lastOp'.op = "generateInstances" =>
        /\ instances \subseteq instances'
        /\ instances' \ instances = SeqRange(lastOp'.returned)
        /\ Cardinality(instances' \ instances) = Len(lastOp'.returned)
        /\ rules' = rules
        /\ tasks' = tasks ]_vars

\* generation added instances next to an overridden one of the same task
C19_Witness ==
  /\ GenOk
  /\ lastOp.returned # <<>>
  /\ \E i \in getInstances(instances, lastOp.target) :
       i \notin SeqRange(lastOp.returned) /\ i.is_modified

\* the k-th occurrence (from 0) of the daily rule of the last request's task
DailyOccurrence(k) == AddDays(ParseDate(OpTask.start_datetime), k * OpRule.interval)
\* the first maxInstances occurrences were stored before the last request
FirstMaterialized ==
  \A k \in 0..(lastOp.args.maxInstances - 1) :
    \E i \in getInstances(instances, lastOp.target) \ SeqRange(lastOp.returned) :
      DayKey(i) = DatePart(toISOString(DailyOccurrence(k)))
\* occurrences after the first maxInstances lie within the ceiling
LaterWithinCeiling ==
  DailyOccurrence(lastOp.args.maxInstances) <= AddDays(now, lastOp.args.daysAhead)

\* C20 (as the code has it): maxInstances bounds the dates walked, skipped
\* ones included: on a daily rule every returned date is one of the first
\* maxInstances occurrences, and a call that finds them all stored creates
\* nothing.
C20_BudgetCountsWalked ==
  (GenOk /\ OpRule.type = "daily") =>
    /\ \A k \in 1..Len(Returned) : Returned[k] <= DailyOccurrence(lastOp.args.maxInstances - 1)
    /\ FirstMaterialized => lastOp.returned = <<>>

\* a call on a never-ending daily rule found its first maxInstances
\* occurrences stored, had later ones within the ceiling, and created nothing
C20_Witness ==
  /\ GenOk /\ OpRule.type = "daily" /\ OpRule.end_type = "never"
  /\ FirstMaterialized /\ LaterWithinCeiling
  /\ lastOp.returned = <<>>

\* C20 (as stated): skipped dates do not consume maxInstances, so a call on a
\* never-ending daily rule whose first maxInstances occurrences are stored and
\* whose later occurrences lie within the ceiling creates new instances.
C20_BudgetCountsCreated ==
  (GenOk /\ OpRule.type = "daily" /\ OpRule.end_type = "never"
   /\ FirstMaterialized /\ LaterWithinCeiling)
    => Len(lastOp.returned) > 0

\* C14: at most one stored rule is attached to a task, and after a successful
\* deleteRule request no stored rule is attached to the task.
C14_OneRulePerTask ==
  /\ \A t \in tasks : Cardinality(RuleRowsOfTask(t.id)) <= 1
  /\ (lastOp.op = "deleteRule" /\ lastOp.outcome = "ok") => RuleRowsOfTask(lastOp.target) = {}

\* the tasks the caller of the last generate request owns under the id it sent
CallerTask == {t \in tasks : t.id = lastOp.target /\ t.user_id = lastOp.args.userId}
\* the outcome of a generate request on a task that is not recurring (line 35)
NotRecurringOutcome == "Task is not recurring or rule not found"

\* C16: a generate request fails with "Task not found" when the caller has no
\* such task, with the not-recurring outcome when the task is not recurring,
\* and with a third outcome when the task is recurring but has no rule
\* reference or its rule is not stored; a failed request returns no instance.
C16_DistinctFailures ==
  lastOp.op = "generateInstances" =>
    /\ CallerTask = {} => lastOp.outcome = "Task not found"
    /\ \A t \in CallerTask :
         /\ ~t.is_recurring => lastOp.outcome = NotRecurringOutcome
         /\ (t.is_recurring /\ (~IsDef(t.recurrence_rule_id)
                                \/ RuleRows(rules, Val(t.recurrence_rule_id)) = {}))
              => lastOp.outcome \notin {"ok", "Task not found", NotRecurringOutcome}
    /\ lastOp.outcome # "ok" => lastOp.returned = <<>>

\* C17: an invocation stores every instance it built from its snapshot,
\* whatever another invocation stored in between; so two invocations that
\* read the same snapshot store the same day twice.
C17_ConcurrentGeneration ==
  GenOk => \A k \in 1..Len(lastOp.returned) : lastOp.returned[k] \in instances

\* on a daily rule, an instance returned by the last invocation has a twin
\* of the same day that another invocation stored
C17_Witness ==
  /\ GenOk
  /\ OpRule.type = "daily"
  /\ \E k \in 1..Len(lastOp.returned) :
       \E i \in getInstances(instances, lastOp.target) :
         /\ i.id # lastOp.returned[k].id
         /\ DayKey(i) = DayKey(lastOp.returned[k])

\* C18: when an INSERT of a batch fails, none of the batch's instances is
\* stored; the instances a request returns are those of its batch that are
\* stored.
C18_AllOrNothing ==
  (lastOp.op = "generateInstances") =>
    /\ lastOp.outcome = "Failed to generate instances" =>
         \A k \in 1..Len(lastOp.args.batch) : lastOp.args.batch[k] \notin instances
    /\ SeqRange(lastOp.returned) = {x \in SeqRange(lastOp.args.batch) : x \in instances}

\* the last step applied calculateNextOccurrence
Calculated == lastOp.op = "calculateNextOccurrence"
\* 2024-01-01 is a Monday: the days of the window that are Monday to Friday
IsMonFri(day) == day % 7 \in 0..4
\* the days after the day of a, up to the day of b, that are Monday to Friday
\* (weekend = FALSE) or Saturday and Sunday (weekend = TRUE)
CountedDays(a, b, weekend) ==
  { d \in (DayOf(a) + 1)..DayOf(b) : IsMonFri(d) = ~weekend }

\* C21: for every validated rule and every lastOccurrence, the calculator
\* returns no date or a date strictly later than lastOccurrence.
C21_CalculatorProgress ==
  Calculated =>
    (lastOp.returned = Undefined \/ Val(lastOp.returned) > lastOp.args.lastOccurrence)

\* C24: a custom rule steps by its customUnit: 7 * interval days when the
\* unit is weeks, interval days when the unit is days.
C24_CustomUnit ==
  (Calculated /\ lastOp.args.rule.type = "custom" /\ lastOp.args.rule.end_type = "never") =>
    LET rule == lastOp.args.rule
        last == lastOp.args.lastOccurrence
    IN /\ rule.custom_unit = Some("weeks") =>
            lastOp.returned = Some(AddDays(last, 7 * rule.interval))
       /\ rule.custom_unit = Some("days") =>
            lastOp.returned = Some(AddDays(last, rule.interval))

\* C25: for a workdays (weekends) rule of interval k the calculator returns
\* a date d later than lastOccurrence that is a Monday-to-Friday day (a
\* Saturday or Sunday), with exactly k such days after the day of
\* lastOccurrence up to the day of d.
C25_WorkdaysWeekendsStep ==
  (Calculated /\ lastOp.args.rule.type \in {"workdays", "weekends"}
     /\ lastOp.returned # Undefined) =>
    LET rule == lastOp.args.rule
        last == lastOp.args.lastOccurrence
        d == Val(lastOp.returned)
        weekend == rule.type = "weekends"
    IN /\ d > last
       /\ IsMonFri(DayOf(d)) = ~weekend
       /\ TimeOf(d) = TimeOf(last)
       /\ Cardinality(CountedDays(last, d, weekend)) = rule.interval

\* a workdays step of interval 2 from a Friday, which passes over a weekend,
\* and a weekends step of interval 2 from a Saturday, which passes over a week
C25_Witness ==
  /\ Calculated /\ lastOp.returned # Undefined
  /\ lastOp.args.rule.interval = 2
  /\ \/ /\ lastOp.args.rule.type = "workdays"
        /\ DayOf(lastOp.args.lastOccurrence) % 7 = 4
        /\ DayOf(Val(lastOp.returned)) = DayOf(lastOp.args.lastOccurrence) + 4
     \/ /\ lastOp.args.rule.type = "weekends"
        /\ DayOf(lastOp.args.lastOccurrence) % 7 = 5
        /\ DayOf(Val(lastOp.returned)) = DayOf(lastOp.args.lastOccurrence) + 7

\* the date ceiling of the last generate call: the clock plus daysAhead days
Ceiling == AddDays(now, lastOp.args.daysAhead)

\* C22: no generate call creates an instance later than the clock plus
\* daysAhead days, and a call on a series whose start is later than that
\* returns the empty list.
C22_DateCeiling ==
  GenOk =>
    /\ \A k \in 1..Len(lastOp.returned) : Returned[k] <= Ceiling
    /\ ParseDate(OpTask.start_datetime) > Ceiling => lastOp.returned = <<>>

\* a call on a never-ending series that the ceiling stopped: it created fewer
\* instances than its budget and the occurrence after the last one created is
\* later than the ceiling
C22_Witness ==
  /\ GenOk /\ OpRule.end_type = "never"
  /\ Len(lastOp.returned) >= 1
  /\ Len(lastOp.returned) < lastOp.args.maxInstances
  /\ LET after == calculateNextOccurrence(OpRule, Returned[Len(lastOp.returned)],
                                          ParseDate(OpTask.start_datetime))
     IN IsDef(after) /\ Val(after) > Ceiling

\* C23: every stored rule holds an end date only when it is date-based and an
\* end count only when it is count-based.
C23_EndPayloadExclusive ==
  \A r \in rules :
    /\ IsDef(r.end_date) => r.end_type = "date"
    /\ IsDef(r.end_count) => r.end_type = "count"

\* C27: a task's recurring flag is set exactly when the task holds a rule
\* reference, and every rule reference points to a stored rule.
C27_RecurringFlagConsistent ==
  \A t \in tasks :
    /\ t.is_recurring <=> IsDef(t.recurrence_rule_id)
    /\ IsDef(t.recurrence_rule_id) => RuleRows(rules, Val(t.recurrence_rule_id)) # {}

\* the start of the series of the last generate call
SeriesStart == ParseDate(OpTask.start_datetime)
\* the rule's end condition allows an occurrence at the series start
StartAllowed ==
  OpRule.end_type = "date" => SeriesStart <= ParseDate(Val(OpRule.end_date))
\* no instance stored before the last generate call falls on the start day
StartDayFree ==
  \A i \in getInstances(instances, lastOp.target) \ SeqRange(lastOp.returned) :
    DayKey(i) # DatePart(toISOString(SeriesStart))

\* C29: a generate call with maxInstances >= 1 on a series whose start is at
\* or before the ceiling, is allowed by the end condition and has no stored
\* instance on its day returns, first, the instance at exactly the task's
\* start date, whatever the rule's pattern is.
C29_StartIsFirstOccurrence ==
  (GenOk /\ lastOp.args.maxInstances >= 1 /\ SeriesStart <= Ceiling
     /\ StartAllowed /\ StartDayFree) =>
    /\ Len(lastOp.returned) >= 1
    /\ lastOp.returned[1].scheduled_date = OpTask.start_datetime
    /\ lastOp.returned[1].parent_task_id = lastOp.target

\* a workdays series that starts on a Sunday, and a monthly series on the
\* 15th that starts on the 1st: the first instance is at the start
C29_Witness ==
  /\ GenOk /\ Len(lastOp.returned) >= 1 /\ StartDayFree
  /\ Returned[1] = SeriesStart
  /\ \/ OpRule.type = "workdays" /\ getDay(SeriesStart) = 0
     \/ OpRule.type = "monthly" /\ Val(OpRule.day_of_month) # OpTask.start_datetime[3]

\* the last request changed a rule
RuleUpdated == lastOp.op = "updateRule" /\ lastOp.outcome = "ok"
\* the dates of a walk from the series start under the stored rule of the
\* last request's task, for a daily rule: the start plus multiples of interval
OnDailyWalk(i) ==
  \E k \in 0..MaxId : ParseDate(i.scheduled_date) = DailyOccurrence(k)

\* C30: an update-rule request leaves every stored instance as it was, and a
\* generate request after it keeps every instance stored before, those made
\* under the old rule included.
C30_NoReconciliation ==
  [][ /\ lastOp'.op = "updateRule" => instances' = instances
      /\ (RuleUpdated /\ lastOp'.op = "generateInstances" /\ lastOp'.target = lastOp.target)
           => instances \subseteq instances' ]_vars

\* after a change of a daily rule's interval a generate call added an
\* instance, and the task still holds one that the new rule never reaches
C30_Witness ==
  /\ GenOk /\ OpRule.type = "daily" /\ OpRule.interval = 2
  /\ Len(lastOp.returned) >= 1
  /\ \A k \in 1..Len(lastOp.returned) : OnDailyWalk(lastOp.returned[k])
  /\ \E i \in getInstances(instances, lastOp.target) : ~OnDailyWalk(i)

\* the row deleted just before the last generate call is on a date that the
\* call's walk reaches under a daily rule: one of the first maxInstances
\* occurrences, within the end count and the ceiling
StillReached(r) ==
  \E k \in 0..(lastOp.args.maxInstances - 1) :
    /\ ParseDate(r.scheduled_date) = DailyOccurrence(k)
    /\ OpRule.end_type = "count" => k < Val(OpRule.end_count)
    /\ DailyOccurrence(k) <= Ceiling
\* the instance is as generateInstances builds it, on the date of r and not r
FreshFor(x, r) ==
  /\ x.scheduled_date = r.scheduled_date
  /\ x.parent_task_id = r.parent_task_id
  /\ x.id # r.id
  /\ x.status = "planned" /\ ~x.is_modified
  /\ x.modified_title = Undefined
  /\ x.modified_description = Undefined
  /\ x.modified_time = Undefined

InLoop == inflight["w1"].busy

\* C26: every generate call returns (its loop ends), and the loop body is
\* entered at most maxInstances times, also when the calculator returns a
\* date that does not advance.
C26_GenerationTerminates ==
  /\ [](GenOk => lastOp.args.iterations <= lastOp.args.maxInstances)
  /\ [](InLoop => inflight["w1"].occurrenceCount <= inflight["w1"].args.maxInstances)
  /\ (InLoop ~> ~InLoop)

\* a call on a weekly rule whose calculator did not advance: the loop body ran
\* maxInstances times on one date, and the call returned
C26_Witness ==
  /\ GenOk /\ OpRule.type = "weekly"
  /\ lastOp.args.maxInstances >= 2
  /\ lastOp.args.iterations = lastOp.args.maxInstances
  /\ Len(lastOp.returned) = lastOp.args.maxInstances
  /\ \A k \in 1..Len(lastOp.returned) : Returned[k] = Returned[1]


====
